---------------------------- MODULE Spec2Model ----------------------------
(***************************************************************************)
(* CompliScan contract analyzer (src/app.py).                              *)
(*                                                                         *)
(* A Python str is modelled as a sequence of one-character strings; a      *)
(* character outside ASCII is written by its code point ("U+2705").        *)
(* Two specifications share the variables:                                 *)
(*   SpecText  applies the pure text functions (find_osh_version,          *)
(*             classify_risk, check_schedules) to texts drawn from a       *)
(*             bounded set;                                                *)
(*   Spec      runs the script: uploads, the guard of line 108, the        *)
(*             per-contract loop, the summary, the exports and the         *)
(*             database step, over any number of reruns.                   *)
(***************************************************************************)
EXTENDS Integers, Sequences, FiniteSets, TLC

VARIABLES
    text,                    \* SpecText: the argument of the text functions
    fn,                      \* SpecText: the function applied last ("none" at first)
    out,                     \* SpecText: what it returned
    contract_files,          \* st.file_uploader(... accept_multiple_files=True), line 19
    osh_file,                \* st.file_uploader(...), line 22; None when nothing is uploaded
    pc,                      \* the script's position
    current_osh_version,     \* line 112
    results,                 \* line 116
    compliant_contracts,     \* line 117
    non_compliant_contracts, \* line 118
    shown,                   \* the counts the summary reported, lines 151-152
    csv,                     \* the bytes offered by the CSV download button, line 158
    db,                      \* the rows of table contracts in compliance.db
    loop_i,                  \* contracts the for loop of line 120 has taken
    runs                     \* script runs started so far

vars == <<text, fn, out, contract_files, osh_file, pc, current_osh_version,
          results, compliant_contracts, non_compliant_contracts, shown, csv,
          db, loop_i, runs>>

textVars == <<text, fn, out>>
runVars == <<contract_files, osh_file, pc, current_osh_version, results,
             compliant_contracts, non_compliant_contracts, shown, csv, db,
             loop_i, runs>>

---------------------------------------------------------------------------
(* Bounds of the model.                                                    *)

\* pieces concatenated into a text of SpecText
MaxPieces == 3
\* contract files uploaded at once
MaxContracts == 2
\* script runs (reruns) followed
MaxRuns == 3

---------------------------------------------------------------------------
(* Strings.                                                                *)

\* Python's None where a str, a list or bytes may stand: no str equals it
None == <<"None">>

UpperCase == <<"A","B","C","D","E","F","G","H","I","J","K","L","M",
               "N","O","P","Q","R","S","T","U","V","W","X","Y","Z">>
LowerCase == <<"a","b","c","d","e","f","g","h","i","j","k","l","m",
               "n","o","p","q","r","s","t","u","v","w","x","y","z">>

\* str.lower() on one character, and on a str
LowerMap == [c \in {UpperCase[k] : k \in 1..26} |->
               LowerCase[CHOOSE k \in 1..26 : UpperCase[k] = c]]

lower_char(c) ==
    IF c \in DOMAIN LowerMap THEN LowerMap[c] ELSE c

lower(s) ==
    [k \in 1..Len(s) |-> lower_char(s[k])]

\* whether sub occurs in s at offset k (0-based): s[k:k+len(sub)] == sub
OccursAt(sub, s, k) ==
    /\ k + Len(sub) <= Len(s)
    /\ \A j \in 1..Len(sub) : s[k + j] = sub[j]

\* Python's  sub in s
Contains(sub, s) ==
    \E k \in 0..Len(s) : OccursAt(sub, s, k)

\* Python's  s.endswith(suffix)
endswith(s, suffix) ==
    /\ Len(suffix) <= Len(s)
    /\ OccursAt(suffix, s, Len(s) - Len(suffix))

RECURSIVE join(_, _)
\* Python's  sep.join(parts)
join(sep, parts) ==
    IF Len(parts) = 0 THEN <<>>
    ELSE IF Len(parts) = 1 THEN parts[1]
    ELSE parts[1] \o sep \o join(sep, Tail(parts))

---------------------------------------------------------------------------
(* Regular expressions of module re, as far as the patterns of             *)
(* find_osh_version use them: a pattern is a sequence of items, each a     *)
(* literal word or a repeated character class, one of which may be the     *)
(* capturing group.  Matching is the backtracking search of re.search:     *)
(* leftmost start, each repetition greedy, giving back one character at a  *)
(* time when the rest of the pattern fails.                                *)

Whitespace == {" ", "\t", "\n", "\r", "\f"}
Digits == {"0","1","2","3","4","5","6","7","8","9"}

\* a character class: the characters listed, or (neg) all others
Class(chars) == [chars |-> chars, neg |-> FALSE]
Space == Class(Whitespace)                 \* \s
SpaceDash == Class(Whitespace \cup {"-"})  \* [\s\-]
NumDot == Class(Digits \cup {"."})         \* [0-9.]
Colon == Class({":"})                      \* :
AnyChar == [chars |-> {"\n"}, neg |-> TRUE] \* .  (no DOTALL)

InClass(cl, c) ==
    (c \in cl.chars) # cl.neg

Lit(w) == [t |-> "lit", w |-> w, g |-> FALSE]
Star(cl) == [t |-> "rep", cl |-> cl, lo |-> 0, many |-> TRUE, g |-> FALSE]
Plus(cl) == [t |-> "rep", cl |-> cl, lo |-> 1, many |-> TRUE, g |-> FALSE]
Opt(cl) == [t |-> "rep", cl |-> cl, lo |-> 0, many |-> FALSE, g |-> FALSE]
Capture(item) == [item EXCEPT !.g = TRUE]

NoMatch == [ok |-> FALSE, group |-> <<>>]

\* the literal w at position i of s, letters compared without case under
\* re.IGNORECASE
LitAt(w, s, i, ignorecase) ==
    /\ i + Len(w) - 1 <= Len(s)
    /\ \A j \in 1..Len(w) :
          IF ignorecase THEN lower_char(s[i + j - 1]) = lower_char(w[j])
          ELSE s[i + j - 1] = w[j]

RECURSIVE RunLen(_, _, _)
\* how many characters of class cl follow from position i
RunLen(cl, s, i) ==
    IF i <= Len(s) /\ InClass(cl, s[i]) THEN 1 + RunLen(cl, s, i + 1) ELSE 0

RECURSIVE MatchFrom(_, _, _, _, _, _), TryCount(_, _, _, _, _, _, _)
\* items k.. of pattern re matched at position i of s; grp is the group
\* captured so far
MatchFrom(re, k, s, i, grp, ignorecase) ==
    IF k > Len(re) THEN [ok |-> TRUE, group |-> grp]
    ELSE IF re[k].t = "lit"
    THEN IF LitAt(re[k].w, s, i, ignorecase)
         THEN MatchFrom(re, k + 1, s, i + Len(re[k].w), grp, ignorecase)
         ELSE NoMatch
    ELSE LET run == RunLen(re[k].cl, s, i)
             top == IF re[k].many \/ run = 0 THEN run ELSE 1
         IN  IF top < re[k].lo THEN NoMatch
             ELSE TryCount(re, k, s, i, grp, ignorecase, top)

\* the repetition re[k] taking n characters, then n-1, ... down to its
\* minimum, until the rest of the pattern matches
TryCount(re, k, s, i, grp, ignorecase, n) ==
    LET g2 == IF re[k].g THEN SubSeq(s, i, i + n - 1) ELSE grp
        r == MatchFrom(re, k + 1, s, i + n, g2, ignorecase)
    IN  IF r.ok THEN r
        ELSE IF n > re[k].lo THEN TryCount(re, k, s, i, grp, ignorecase, n - 1)
        ELSE NoMatch

RECURSIVE SearchFrom(_, _, _, _)
SearchFrom(re, s, i, ignorecase) ==
    IF i > Len(s) + 1 THEN NoMatch
    ELSE LET r == MatchFrom(re, 1, s, i, <<>>, ignorecase)
         IN  IF r.ok THEN r ELSE SearchFrom(re, s, i + 1, ignorecase)

\* re.search(pattern, text, flags): the match at the leftmost start, or None
\* (ok = FALSE); group is match.group(1)
re_search(re, s, ignorecase) ==
    SearchFrom(re, s, 1, ignorecase)

---------------------------------------------------------------------------
(* The text functions.                                                     *)

NotFound == <<"N","o","t"," ","F","o","u","n","d">>
Unknown == <<"U","n","k","n","o","w","n">>

VersionTail == <<Star(Space), Opt(Colon), Star(SpaceDash), Capture(Plus(NumDot))>>

\* r"OSH\s*Version\s*:?[\s\-]*([0-9.]+)"
Pattern1 ==
    <<Lit(<<"O","S","H">>), Star(Space), Lit(<<"V","e","r","s","i","o","n">>)>> \o VersionTail

\* r"Version\s*:?[\s\-]*([0-9.]+).*OSH"
Pattern2 ==
    <<Lit(<<"V","e","r","s","i","o","n">>)>> \o VersionTail \o <<Star(AnyChar), Lit(<<"O","S","H">>)>>

\* r"Occupational\s+Safety\s+and\s+Health\s+Schedule.*Version\s*:?[\s\-]*([0-9.]+)"
Pattern3 ==
    <<Lit(<<"O","c","c","u","p","a","t","i","o","n","a","l">>), Plus(Space), Lit(<<"S","a","f","e","t","y">>), Plus(Space),
      Lit(<<"a","n","d">>), Plus(Space), Lit(<<"H","e","a","l","t","h">>), Plus(Space),
      Lit(<<"S","c","h","e","d","u","l","e">>), Star(AnyChar), Lit(<<"V","e","r","s","i","o","n">>)>> \o VersionTail

patterns == <<Pattern1, Pattern2, Pattern3>>

RECURSIVE FirstMatch(_, _, _)
\* the loop of lines 51-55 from pattern k on
FirstMatch(pats, k, s) ==
    IF k > Len(pats) THEN NotFound
    ELSE LET match == re_search(pats[k], s, TRUE)
         IN  IF match.ok THEN match.group ELSE FirstMatch(pats, k + 1, s)

\* variants of find_osh_version that differ from the code: the patterns tried in the opposite order;
\* the last pattern never tried
find_osh_version_Reversed(s) ==
    FirstMatch(<<Pattern3, Pattern2, Pattern1>>, 1, s)

find_osh_version_TwoPatterns(s) ==
    FirstMatch(SubSeq(patterns, 1, 2), 1, s)

find_osh_version(s) ==
    FirstMatch(patterns, 1, s)

key_schedules ==
    <<<<"P","R","I","C","I","N","G">>, <<"S","C","O","P","E"," ","O","F"," ","W","O","R","K">>, <<"S","L","A">>, <<"S","A","F","E","T","Y"," ","O","S","H">>,
      <<"S","U","P","P","L","I","E","R"," ","C","O","D","E"," ","O","F"," ","C","O","N","D","U","C","T">>, <<"D","O","C","U","M","E","N","T"," ","V","E","R","S","I","O","N"," ","O","S","H">>,
      <<"D","O","C","U","M","E","N","T"," ","V","E","R","S","I","O","N"," ","C","O","D","E"," ","O","F"," ","C","O","N","D","U","C","T">>, <<"L","I","Q","U","I","D","A","T","E","D"," ","D","A","M","A","G","E","S">>,
      <<"P","A","Y","M","E","N","T"," ","T","E","R","M","S">>, <<"I","N","C","O","T","E","R","M","S">>>>

\* the dict of lines 30-34, in its insertion order
risk_keywords ==
    <<[level |-> <<"H","I","G","H">>,
       keywords |-> <<<<"w","o","r","k","i","n","g"," ","a","t"," ","h","e","i","g","h","t">>, <<"c","o","n","f","i","n","e","d"," ","s","p","a","c","e","s">>,
                      <<"e","l","e","c","t","r","i","c","a","l">>, <<"f","i","b","e","r"," ","s","p","l","i","c","i","n","g">>, <<"e","x","p","l","o","s","i","v","e">>,
                      <<"h","o","t"," ","w","o","r","k","s">>>>],
      [level |-> <<"M","E","D","I","U","M">>,
       keywords |-> <<<<"m","a","i","n","t","e","n","a","n","c","e">>, <<"i","n","s","t","a","l","l","a","t","i","o","n">>, <<"d","r","i","v","i","n","g">>,
                      <<"r","e","p","a","i","r","s">>, <<"t","e","s","t","i","n","g">>>>],
      [level |-> <<"L","O","W">>,
       keywords |-> <<<<"c","l","e","a","n","i","n","g">>, <<"a","d","m","i","n","i","s","t","r","a","t","i","o","n">>, <<"d","e","l","i","v","e","r","y">>,
                      <<"i","n","s","p","e","c","t","i","o","n">>>>]>>

RECURSIVE RiskFrom(_, _, _, _)
\* the nested loops of lines 58-62 from keyword j of tier k on
RiskFrom(tiers, k, j, s) ==
    IF k > Len(tiers) THEN Unknown
    ELSE IF j > Len(tiers[k].keywords) THEN RiskFrom(tiers, k + 1, 1, s)
    ELSE IF Contains(lower(tiers[k].keywords[j]), lower(s)) THEN tiers[k].level
    ELSE RiskFrom(tiers, k, j + 1, s)

\* a variant of classify_risk: the tiers scanned from LOW to HIGH
classify_risk_LowFirst(s) ==
    RiskFrom(<<risk_keywords[3], risk_keywords[2], risk_keywords[1]>>, 1, 1, s)

classify_risk(s) ==
    RiskFrom(risk_keywords, 1, 1, s)

RECURSIVE SchedulesFrom(_, _, _, _)
\* the loop of lines 66-68 from label k on, found being the list so far
SchedulesFrom(labels, k, s, found) ==
    IF k > Len(labels) THEN found
    ELSE IF Contains(lower(labels[k]), lower(s))
    THEN SchedulesFrom(labels, k + 1, s, Append(found, labels[k]))
    ELSE SchedulesFrom(labels, k + 1, s, found)

RECURSIVE SchedulesFrom_CaseSensitive(_, _, _, _)
\* a variant of check_schedules: the label looked for as written
SchedulesFrom_CaseSensitive(labels, k, s, found) ==
    IF k > Len(labels) THEN found
    ELSE IF Contains(labels[k], s)
    THEN SchedulesFrom_CaseSensitive(labels, k + 1, s, Append(found, labels[k]))
    ELSE SchedulesFrom_CaseSensitive(labels, k + 1, s, found)

check_schedules_CaseSensitive(s) ==
    SchedulesFrom_CaseSensitive(key_schedules, 1, s, <<>>)

check_schedules(s) ==
    SchedulesFrom(key_schedules, 1, s, <<>>)

---------------------------------------------------------------------------
(* Uploaded files.  A file is its name and what the parser of its format   *)
(* finds in it: the text of each page (fitz) or of each paragraph (docx).  *)
(* The files are well-formed: what the script does when fitz.open or       *)
(* docx.Document raises on a corrupt file is left out.                     *)

UploadedFile(name, parts) == [name |-> name, parts |-> parts]

\* what st.file_uploader returns while nothing is uploaded (None, falsy)
NoFile == UploadedFile(<<>>, <<>>)

\* what the summary shows before lines 150-156 have run
NotShown ==
    [displayed |-> FALSE, compliant |-> 0, non_compliant |-> 0,
     non_compliant_list |-> <<>>]

\* a variant of extract_text: the extension compared without regard to case
extract_text_AnyCase(file) ==
    IF endswith(lower(file.name), <<".","p","d","f">>) THEN join(<<"\n">>, file.parts)
    ELSE IF endswith(lower(file.name), <<".","d","o","c","x">>) THEN join(<<"\n">>, file.parts)
    ELSE <<>>

extract_text(file) ==
    IF endswith(file.name, <<".","p","d","f">>) THEN join(<<"\n">>, file.parts)
    ELSE IF endswith(file.name, <<".","d","o","c","x">>) THEN join(<<"\n">>, file.parts)
    ELSE <<>>

Compliant == <<"U+2705"," ","C","o","m","p","l","i","a","n","t">>
NotCompliant == <<"U+274C"," ","N","o","t"," ","C","o","m","p","l","i","a","n","t">>

\* a variant of compliance_of: equal versions suffice
compliance_of_EqualOnly(version, current) ==
    IF version = current THEN Compliant ELSE NotCompliant

\* line 123
compliance_of(version, current) ==
    IF version = current /\ version # NotFound THEN Compliant ELSE NotCompliant

\* lines 121-125 and 132-138: the result dict of one contract
analyze(file, current) ==
    LET contract_text == extract_text(file)
        version == find_osh_version(contract_text)
    IN  [file |-> file.name,
         version |-> version,
         compliance |-> compliance_of(version, current),
         risk |-> classify_risk(contract_text),
         schedules |-> check_schedules(contract_text)]

---------------------------------------------------------------------------
(* The exports.                                                            *)

\* pd.DataFrame(results): the columns are the keys of the dicts, in order
Columns == <<"file", "version", "compliance", "risk", "schedules">>
ColumnName ==
    [file |-> <<"f","i","l","e">>, version |-> <<"v","e","r","s","i","o","n">>, compliance |-> <<"c","o","m","p","l","i","a","n","c","e">>,
     risk |-> <<"r","i","s","k">>, schedules |-> <<"s","c","h","e","d","u","l","e","s">>]

DataFrame(rows) == [columns |-> Columns, rows |-> rows]

\* repr() of a str that holds no quote, backslash or control character
py_repr(s) ==
    <<"'">> \o s \o <<"'">>

\* str() of a list of such strs
py_str_list(l) ==
    <<"[">> \o join(<<","," ">>, [k \in 1..Len(l) |-> py_repr(l[k])]) \o <<"]">>

\* the text to_csv writes for a cell: a str as it is, a list by str()
cell_text(col, value) ==
    IF col = "schedules" THEN py_str_list(value) ELSE value

RECURSIVE double_quotes(_)
double_quotes(s) ==
    IF s = <<>> THEN <<>>
    ELSE (IF Head(s) = "\"" THEN <<"\"", "\"">> ELSE <<Head(s)>>)
            \o double_quotes(Tail(s))

\* a variant of csv_field: fields written as they are
csv_field_Unquoted(s) ==
    s

\* csv.QUOTE_MINIMAL with doublequote: a field holding the delimiter, the
\* quote character or a line break is quoted
csv_field(s) ==
    IF \E k \in 1..Len(s) : s[k] \in {",", "\"", "\n", "\r"}
    THEN <<"\"">> \o double_quotes(s) \o <<"\"">>
    ELSE s

csv_line(fields) ==
    join(<<",">>, [k \in 1..Len(fields) |-> csv_field(fields[k])]) \o <<"\n">>

\* dataframe.to_csv(index=False)
to_csv(df) ==
    csv_line([c \in 1..Len(df.columns) |-> ColumnName[df.columns[c]]])
        \o join(<<>>, [r \in 1..Len(df.rows) |->
               csv_line([c \in 1..Len(df.columns) |->
                   cell_text(df.columns[c], df.rows[r][df.columns[c]])])])

\* the UTF-8 bytes of the characters outside ASCII that the script writes;
\* a byte is written "0xE2", an ASCII byte as its character
Utf8 ==
    [c \in {"U+2705", "U+274C"} |->
        IF c = "U+2705" THEN <<"0xE2", "0x9C", "0x85">>
        ELSE <<"0xE2", "0x9D", "0x8C">>]

RECURSIVE encode_utf8(_)
\* str.encode('utf-8'), computed by halves
encode_utf8(s) ==
    IF s = <<>> THEN <<>>
    ELSE IF Len(s) = 1
    THEN (IF s[1] \in DOMAIN Utf8 THEN Utf8[s[1]] ELSE s)
    ELSE encode_utf8(SubSeq(s, 1, Len(s) \div 2))
            \o encode_utf8(SubSeq(s, Len(s) \div 2 + 1, Len(s)))

\* lines 71-72
generate_csv(df) ==
    encode_utf8(to_csv(df))

\* the lines generate_pdf_report hands to multi_cell for one result
pdf_lines(result) ==
    <<<<"C","o","n","t","r","a","c","t",":"," ">> \o result.file,
      <<" "," ","O","S","H"," ","V","e","r","s","i","o","n"," ","D","e","t","e","c","t","e","d",":"," ">> \o result.version,
      <<" "," ","C","o","m","p","l","i","a","n","c","e",":"," ">> \o result.compliance,
      <<" "," ","R","i","s","k",":"," ">> \o result.risk,
      <<" "," ","S","c","h","e","d","u","l","e","s",":"," ">> \o (IF result.schedules # <<>>
                              THEN join(<<","," ">>, result.schedules)
                              ELSE <<"N","o","n","e">>)>>

\* whether the font set in line 77 can encode the character: Arial is one
\* of FPDF's built-in fonts, which are latin-1; of the characters of this
\* model the two written by code point are outside it
Latin1(c) ==
    c \notin {"U+2705", "U+274C"}

\* lines 74-89: FPDF raises on text its built-in font cannot encode
\* (FPDFUnicodeEncodingException in multi_cell, UnicodeEncodeError in
\* output, by the version of the library)
generate_pdf_report(rs) ==
    [raised |-> \E r \in 1..Len(rs) : \E l \in 1..5 :
                    \E k \in 1..Len(pdf_lines(rs[r])[l]) :
                        ~Latin1(pdf_lines(rs[r])[l][k]),
     pages |-> [r \in 1..Len(rs) |-> pdf_lines(rs[r])]]

\* lines 91-106: one row appended per result; timestamp is the run's
save_to_database(table, rs, timestamp) ==
    table \o [k \in 1..Len(rs) |->
                [timestamp |-> timestamp,
                 filename |-> rs[k].file,
                 version |-> rs[k].version,
                 compliance |-> rs[k].compliance,
                 risk |-> rs[k].risk,
                 schedules |-> join(<<","," ">>, rs[k].schedules)]]

---------------------------------------------------------------------------
(* Spec: the script.  Streamlit runs it from the top whenever the user     *)
(* changes an upload or presses a button; the uploads are all that a run   *)
(* inherits, compliance.db all that it leaves behind.                      *)

Documents ==
    {UploadedFile(<<"a",".","p","d","f">>, <<<<"O","S","H"," ","V","e","r","s","i","o","n",":"," ","2",".","1","0","\n">>, <<"S","c","o","p","e"," ","o","f"," ","W","o","r","k",":"," ","m","a","i","n","t","e","n","a","n","c","e">>>>),
     UploadedFile(<<"b",".","d","o","c","x">>, <<<<"D","o","c","u","m","e","n","t"," ","V","e","r","s","i","o","n"," ","O","S","H">>, <<"v","e","r","s","i","o","n"," ","-"," ","2",".","1","0"," ","(","o","s","h",")">>,
                                <<"P","R","I","C","I","N","G",","," ","S","L","A",";"," ","c","l","e","a","n","i","n","g">>>>),
     UploadedFile(<<"a",".","p","d","f">>, <<<<"V","e","r","s","i","o","n"," ","3"," ","o","f"," ","t","h","e"," ","O","S","H"," ","s","c","h","e","d","u","l","e",";"," ","h","o","t"," ","w","o","r","k","s">>>>),
     UploadedFile(<<"s","c","a","n",".","P","D","F">>, <<<<"O","S","H"," ","V","e","r","s","i","o","n"," ","2",".","1","0"," ","e","l","e","c","t","r","i","c","a","l"," ","P","R","I","C","I","N","G">>>>),
     UploadedFile(<<"c",",","\"","d","\"",".","d","o","c","x">>, <<<<"P","a","y","m","e","n","t"," ","T","e","r","m","s"," ","a","n","d"," ","d","e","l","i","v","e","r","y">>>>),
     UploadedFile(<<"e",".","p","d","f">>, <<<<"O","S","H"," ","V","e","r","s","i","o","n"," ","1",".","2",".","3">>, <<"I","n","c","o","t","e","r","m","s">>>>)}

RunInit ==
    /\ contract_files = <<>>
    /\ osh_file = NoFile
    /\ pc = "idle"
    /\ loop_i = 0
    /\ current_osh_version = None
    /\ results = <<>>
    /\ compliant_contracts = <<>>
    /\ non_compliant_contracts = <<>>
    /\ shown = NotShown
    /\ csv = None
    /\ db = <<>>
    /\ runs = 0

Init ==
    /\ text = <<>>
    /\ fn = "none"
    /\ out = None
    /\ RunInit

\* a script run starts at line 1 with no variable of the last run left
Rerun ==
    /\ pc \in {"idle", "done", "error"}
    /\ runs < MaxRuns
    /\ runs' = runs + 1
    /\ pc' = "guard"
    /\ loop_i' = 0
    /\ current_osh_version' = None
    /\ results' = <<>>
    /\ compliant_contracts' = <<>>
    /\ non_compliant_contracts' = <<>>
    /\ shown' = NotShown
    /\ csv' = None
    /\ UNCHANGED <<db, textVars>>

\* the user adds a contract file to the uploader of line 19, which reruns
\* the script
AddContract ==
    /\ Len(contract_files) < MaxContracts
    /\ \E file \in Documents : contract_files' = Append(contract_files, file)
    /\ osh_file' = osh_file
    /\ Rerun

\* the user removes a contract file from the uploader
RemoveContract ==
    /\ \E k \in 1..Len(contract_files) :
          contract_files' = SubSeq(contract_files, 1, k - 1)
                              \o SubSeq(contract_files, k + 1, Len(contract_files))
    /\ osh_file' = osh_file
    /\ Rerun

\* the user sets, replaces or removes the reference file of line 22; with
\* the same file again this is the rerun a download button causes
SetReference ==
    /\ osh_file' \in Documents \cup {NoFile}
    /\ contract_files' = contract_files
    /\ Rerun

\* lines 108-118, and 166-167
Guard ==
    /\ pc = "guard"
    /\ IF contract_files # <<>> /\ osh_file # NoFile
       THEN /\ current_osh_version' = find_osh_version(extract_text(osh_file))
            /\ pc' = "loop"
       ELSE /\ current_osh_version' = current_osh_version
            /\ pc' = "idle"
    /\ results' = <<>>
    /\ compliant_contracts' = <<>>
    /\ non_compliant_contracts' = <<>>
    /\ UNCHANGED <<contract_files, osh_file, loop_i, shown, csv, db, runs, textVars>>

\* a variant of AnalyzeContract: a file name is listed once
AnalyzeContract_NamesOnce ==
    /\ pc = "loop"
    /\ loop_i < Len(contract_files)
    /\ LET file == contract_files[loop_i + 1]
           result == analyze(file, current_osh_version)
           listed == \E k \in 1..Len(results) : results[k].file = file.name
       IN  /\ IF listed
              THEN UNCHANGED <<compliant_contracts, non_compliant_contracts>>
              ELSE IF result.compliance = Compliant
              THEN /\ compliant_contracts' = Append(compliant_contracts, file.name)
                   /\ non_compliant_contracts' = non_compliant_contracts
              ELSE /\ non_compliant_contracts' = Append(non_compliant_contracts, file.name)
                   /\ compliant_contracts' = compliant_contracts
           /\ results' = Append(results, result)
    /\ loop_i' = loop_i + 1
    /\ UNCHANGED <<contract_files, osh_file, pc, current_osh_version, shown, csv,
                   db, runs, textVars>>

\* a variant of AnalyzeContract: the newest result put first
AnalyzeContract_NewestFirst ==
    /\ pc = "loop"
    /\ loop_i < Len(contract_files)
    /\ LET file == contract_files[loop_i + 1]
           result == analyze(file, current_osh_version)
       IN  /\ IF result.compliance = Compliant
              THEN /\ compliant_contracts' = Append(compliant_contracts, file.name)
                   /\ non_compliant_contracts' = non_compliant_contracts
              ELSE /\ non_compliant_contracts' = Append(non_compliant_contracts, file.name)
                   /\ compliant_contracts' = compliant_contracts
           /\ results' = <<result>> \o results
    /\ loop_i' = loop_i + 1
    /\ UNCHANGED <<contract_files, osh_file, pc, current_osh_version, shown, csv,
                   db, runs, textVars>>

\* lines 120-146: one pass of the for loop
AnalyzeContract ==
    /\ pc = "loop"
    /\ loop_i < Len(contract_files)
    /\ LET file == contract_files[loop_i + 1]
           result == analyze(file, current_osh_version)
       IN  /\ IF result.compliance = Compliant
              THEN /\ compliant_contracts' = Append(compliant_contracts, file.name)
                   /\ non_compliant_contracts' = non_compliant_contracts
              ELSE /\ non_compliant_contracts' = Append(non_compliant_contracts, file.name)
                   /\ compliant_contracts' = compliant_contracts
           /\ results' = Append(results, result)
    /\ loop_i' = loop_i + 1
    /\ UNCHANGED <<contract_files, osh_file, pc, current_osh_version, shown, csv,
                   db, runs, textVars>>

\* lines 148-158: the loop is over; the summary and the CSV download button
Summary ==
    /\ pc = "loop"
    /\ loop_i = Len(contract_files)
    /\ shown' = [displayed |-> TRUE,
                 compliant |-> Len(compliant_contracts),
                 non_compliant |-> Len(non_compliant_contracts),
                 non_compliant_list |-> non_compliant_contracts]
    /\ csv' = generate_csv(DataFrame(results))
    /\ pc' = "report"
    /\ UNCHANGED <<contract_files, osh_file, loop_i, current_osh_version, results,
                   compliant_contracts, non_compliant_contracts, db, runs, textVars>>

\* lines 160-164: the PDF report, then the database; an exception raised by
\* generate_pdf_report ends the run before save_to_database is called
ReportAndSave ==
    /\ pc = "report"
    /\ IF generate_pdf_report(results).raised
       THEN /\ pc' = "error"
            /\ db' = db
       ELSE /\ pc' = "done"
            /\ db' = save_to_database(db, results, runs)
    /\ UNCHANGED <<contract_files, osh_file, loop_i, current_osh_version, results,
                   compliant_contracts, non_compliant_contracts, shown, csv, runs,
                   textVars>>

Next ==
    \/ AddContract
    \/ RemoveContract
    \/ SetReference
    \/ Guard
    \/ AnalyzeContract
    \/ Summary
    \/ ReportAndSave

Spec == Init /\ [][Next]_vars

---------------------------------------------------------------------------
(* Re-reading the exported CSV.  The script has no reader; the one the     *)
(* round trip of the specification speaks of is taken to be pandas'        *)
(* read_csv with its defaults, the inverse pandas offers for to_csv: the   *)
(* bytes are decoded, split into records and fields, and each column is    *)
(* given a type: integers, floats, or strs.  A cell read back is a value   *)
(* with its Python type, so that the str "2" and the int 2 differ as they  *)
(* do for ==.                                                              *)

PyStr(s) == [type |-> "str", value |-> s, scale |-> 0]
PyList(l) == [type |-> "list", value |-> l, scale |-> 0]
PyInt(n) == [type |-> "int", value |-> n, scale |-> 0]
\* the float value / 10^scale, value not a multiple of 10 unless scale = 0
PyFloat(n, scale) == [type |-> "float", value |-> n, scale |-> scale]
NaN == [type |-> "nan", value |-> 0, scale |-> 0]

\* the bytes that continue a character
Continuation ==
    UNION {{Utf8[c][2], Utf8[c][3]} : c \in DOMAIN Utf8}

RECURSIVE decode_utf8(_)
\* bytes.decode('utf-8'), computed by halves cut at the start of a character
decode_utf8(bytes) ==
    IF bytes = <<>> THEN <<>>
    ELSE IF Len(bytes) <= 3 /\ \E c \in DOMAIN Utf8 : bytes = Utf8[c]
    THEN <<CHOOSE c \in DOMAIN Utf8 : bytes = Utf8[c]>>
    ELSE IF Len(bytes) = 1 THEN bytes
    ELSE LET half == Len(bytes) \div 2 + 1
             starts == {j \in 2..Len(bytes) : bytes[j] \notin Continuation}
             dist(j) == IF j < half THEN half - j ELSE j - half
             cut == CHOOSE j \in starts : \A k \in starts : dist(j) <= dist(k)
         IN  IF starts = {} THEN bytes
             ELSE decode_utf8(SubSeq(bytes, 1, cut - 1))
                     \o decode_utf8(SubSeq(bytes, cut, Len(bytes)))

\* the least member of a non-empty set of positions
Least(positions) ==
    CHOOSE p \in positions : \A q \in positions : p <= q

\* the quote that closes the quoted field opened at position i: the first
\* one that is not the first half of a doubled quote
closing_quote(s, i) ==
    Least({j \in (i + 1)..Len(s) :
              /\ s[j] = "\""
              /\ Cardinality({k \in (i + 1)..j : s[k] = "\""}) % 2 = 1
              /\ (j = Len(s) \/ s[j + 1] # "\"")} \cup {Len(s) + 1})

\* where the field that starts at position i ends: the position of the
\* delimiter or line break after it, Len(s) + 1 at the end of the text
field_end(s, i) ==
    LET from == IF i <= Len(s) /\ s[i] = "\"" THEN closing_quote(s, i) ELSE i
    IN  Least({j \in from..Len(s) : s[j] \in {",", "\n"}} \cup {Len(s) + 1})

RECURSIVE single_quotes(_)
single_quotes(s) ==
    IF s = <<>> THEN <<>>
    ELSE IF Len(s) >= 2 /\ s[1] = "\"" /\ s[2] = "\""
    THEN <<"\"">> \o single_quotes(SubSeq(s, 3, Len(s)))
    ELSE <<Head(s)>> \o single_quotes(Tail(s))

\* the value of the field from position i to before position e
field_value(s, i, e) ==
    IF i <= Len(s) /\ s[i] = "\""
    THEN single_quotes(SubSeq(s, i + 1, closing_quote(s, i) - 1))
            \o SubSeq(s, closing_quote(s, i) + 1, e - 1)
    ELSE SubSeq(s, i, e - 1)

RECURSIVE csv_records(_, _, _, _)
\* the records of CSV text s from position i on, row being the fields read
\* of the current record
csv_records(s, i, row, records) ==
    IF i > Len(s)
    THEN IF row = <<>> THEN records ELSE Append(records, Append(row, <<>>))
    ELSE LET e == field_end(s, i)
             fields == Append(row, field_value(s, i, e))
         IN  IF e > Len(s) THEN Append(records, fields)
             ELSE IF s[e] = "," THEN csv_records(s, e + 1, fields, records)
             ELSE csv_records(s, e + 1, <<>>, Append(records, fields))

\* some of read_csv's default na_values
NaValues ==
    {<<>>, <<"N","A">>, <<"N","/","A">>, <<"n","/","a">>, <<"N","a","N">>, <<"n","a","n">>, <<"N","U","L","L">>, <<"n","u","l","l">>,
     <<"N","o","n","e">>, <<"<","N","A",">">>, <<"#","N","/","A">>}

DigitValue ==
    [c \in Digits |-> CHOOSE n \in 0..9 : <<"0","1","2","3","4","5","6","7","8","9">>[n + 1] = c]

IsInteger(s) ==
    s # <<>> /\ \A k \in 1..Len(s) : s[k] \in Digits

\* digits with one decimal point, as "2.10", "1." and ".5"
IsDecimal(s) ==
    /\ \A k \in 1..Len(s) : s[k] \in Digits \cup {"."}
    /\ Cardinality({k \in 1..Len(s) : s[k] = "."}) = 1
    /\ Len(s) >= 2

RECURSIVE digits_value(_, _)
\* the number written by the digits of s, its decimal point skipped
digits_value(s, acc) ==
    IF s = <<>> THEN acc
    ELSE IF Head(s) = "." THEN digits_value(Tail(s), acc)
    ELSE digits_value(Tail(s), 10 * acc + DigitValue[Head(s)])

RECURSIVE normal_float(_, _)
normal_float(n, scale) ==
    IF scale > 0 /\ n % 10 = 0 THEN normal_float(n \div 10, scale - 1)
    ELSE PyFloat(n, scale)

\* the float written by s, an integer or a decimal
to_float(s) ==
    IF IsInteger(s) THEN PyFloat(digits_value(s, 0), 0)
    ELSE normal_float(digits_value(s, 0),
                      Len(s) - (CHOOSE k \in 1..Len(s) : s[k] = "."))

\* the values of a column of cells read as text: int64 when every cell is
\* an integer, float64 when every cell is a number or missing, else object
infer_column(cells) ==
    LET present == {k \in 1..Len(cells) : cells[k] \notin NaValues}
    IN  IF present # {} /\ present = 1..Len(cells)
           /\ \A k \in present : IsInteger(cells[k])
        THEN [k \in 1..Len(cells) |-> PyInt(digits_value(cells[k], 0))]
        ELSE IF present # {}
                /\ \A k \in present : IsInteger(cells[k]) \/ IsDecimal(cells[k])
        THEN [k \in 1..Len(cells) |->
                 IF k \in present THEN to_float(cells[k]) ELSE NaN]
        ELSE [k \in 1..Len(cells) |->
                 IF k \in present THEN PyStr(cells[k]) ELSE NaN]

\* pandas.read_csv(io.BytesIO(data)): ok is FALSE where the reader raises
\* (a record with more fields than the header) or finds other columns than
\* to_csv was given
read_csv(data) ==
    LET records == csv_records(decode_utf8(data), 1, <<>>, <<>>)
        header == records[1]
        body == Tail(records)
        column(c) == infer_column([r \in 1..Len(body) |-> body[r][c]])
    IN  IF records = <<>>
           \/ header # [c \in 1..Len(Columns) |-> ColumnName[Columns[c]]]
           \/ \E r \in 1..Len(body) : Len(body[r]) # Len(header)
        THEN [ok |-> FALSE, rows |-> <<>>]
        ELSE [ok |-> TRUE,
              rows |-> [r \in 1..Len(body) |->
                          [file |-> column(1)[r], version |-> column(2)[r],
                           compliance |-> column(3)[r], risk |-> column(4)[r],
                           schedules |-> column(5)[r]]]]

\* Python's == on two such values: values of different types differ
py_eq(a, b) ==
    a.type = b.type /\ a.value = b.value /\ a.scale = b.scale

\* the rows of the result set as Python values
exported(rs) ==
    [r \in 1..Len(rs) |->
        [file |-> PyStr(rs[r].file), version |-> PyStr(rs[r].version),
         compliance |-> PyStr(rs[r].compliance), risk |-> PyStr(rs[r].risk),
         schedules |-> PyList(rs[r].schedules)]]

---------------------------------------------------------------------------
(* SpecText: the text functions on texts concatenated from at most         *)
(* MaxPieces pieces.  The pieces hold the words the three functions look   *)
(* for, in several cases, near misses of them, and the separators the      *)
(* patterns allow.                                                         *)

VersionPieces ==
    {<<"O","S","H">>, <<"o","s","h">>, <<"V","e","r","s","i","o","n">>, <<"v","e","r","s","i","o","n",":"," ","1">>, <<"O","S","H"," ","V","e","r","s","i","o","n"," ","2",".","1","0">>,
     <<"2",".","1","0">>, <<" ">>, <<"\n">>, <<"x">>, <<"O","c","c","u","p","a","t","i","o","n","a","l"," ","S","a","f","e","t","y"," ","a","n","d"," ","H","e","a","l","t","h"," ","S","c","h","e","d","u","l","e">>}

RiskPieces ==
    {<<"W","o","r","k","i","n","g"," ","a","t"," ","H","e","i","g","h","t">>, <<"e","l","e","c","t","r","i","c","a","l">>, <<"M","a","i","n","t","e","n","a","n","c","e">>, <<"T","E","S","T","I","N","G">>,
     <<"c","l","e","a","n","i","n","g">>, <<"c","l","e","a","n">>, <<"i","n","g">>, <<" ","a","n","d"," ">>}

SchedulePieces ==
    {<<"P","R","I","C","I","N","G">>, <<"s","l","a">>, <<"S","a","f","e","t","y"," ">>, <<"O","S","H">>, <<"D","o","c","u","m","e","n","t"," ","V","e","r","s","i","o","n"," ">>,
     <<"S","u","p","p","l","i","e","r"," ">>, <<"C","o","d","e"," ","o","f"," ","C","o","n","d","u","c","t">>, <<"I","n","c","o","t","e","r","m","s">>}

RECURSIVE Concat(_, _)
\* the concatenations of at most n pieces
Concat(pieces, n) ==
    IF n = 0 THEN {<<>>}
    ELSE LET shorter == Concat(pieces, n - 1)
         IN  shorter \cup {s \o p : s \in shorter, p \in pieces}

TextInputs ==
    Concat(VersionPieces, MaxPieces) \cup Concat(RiskPieces, MaxPieces)
        \cup Concat(SchedulePieces, MaxPieces)

InitText ==
    /\ text \in TextInputs
    /\ fn = "none"
    /\ out = None
    /\ RunInit

FindOshVersion ==
    /\ fn = "none"
    /\ fn' = "find_osh_version"
    /\ out' = find_osh_version(text)
    /\ UNCHANGED <<text, runVars>>

ClassifyRisk ==
    /\ fn = "none"
    /\ fn' = "classify_risk"
    /\ out' = classify_risk(text)
    /\ UNCHANGED <<text, runVars>>

CheckSchedules ==
    /\ fn = "none"
    /\ fn' = "check_schedules"
    /\ out' = check_schedules(text)
    /\ UNCHANGED <<text, runVars>>

NextText ==
    \/ FindOshVersion
    \/ ClassifyRisk
    \/ CheckSchedules

SpecText == InitText /\ [][NextText]_vars

---------------------------------------------------------------------------
(* What the claims about the text functions speak of, stated without the   *)
(* loops of the code: the language of a pattern, and a substring found     *)
(* without regard to case.                                                 *)

RECURSIVE Accepts(_, _, _, _)
\* some way of matching items k.. of re at position i of s, case ignored
Accepts(re, k, s, i) ==
    IF k > Len(re) THEN TRUE
    ELSE IF re[k].t = "lit"
    THEN /\ i + Len(re[k].w) - 1 <= Len(s)
         /\ \A j \in 1..Len(re[k].w) :
               lower_char(s[i + j - 1]) = lower_char(re[k].w[j])
         /\ Accepts(re, k + 1, s, i + Len(re[k].w))
    ELSE \E n \in re[k].lo..(IF re[k].many THEN Len(s) ELSE 1) :
            /\ i + n - 1 <= Len(s)
            /\ \A j \in 0..(n - 1) : InClass(re[k].cl, s[i + j])
            /\ Accepts(re, k + 1, s, i + n)

\* pattern re matches somewhere in s
Matches(re, s) ==
    \E i \in 1..(Len(s) + 1) : Accepts(re, 1, s, i)

\* the least index of a pattern that matches s (0 when none does)
FirstMatching(s) ==
    IF Matches(Pattern1, s) THEN 1
    ELSE IF Matches(Pattern2, s) THEN 2
    ELSE IF Matches(Pattern3, s) THEN 3
    ELSE 0

\* word occurs in s, letters compared without case
ContainsNoCase(word, s) ==
    \E k \in 0..(Len(s) - Len(word)) :
        \A j \in 1..Len(word) : lower_char(s[k + j]) = lower_char(word[j])

\* tier k of risk_keywords has a keyword occurring in s
TierOccurs(k, s) ==
    \E j \in 1..Len(risk_keywords[k].keywords) :
        ContainsNoCase(risk_keywords[k].keywords[j], s)

\* C2: when some version pattern matches the text, find_osh_version returns
\* the capturing group of the lowest-indexed pattern that matches anywhere in
\* it, whatever the case of the letters.
C2_PatternPriority ==
    (fn = "find_osh_version" /\ FirstMatching(text) # 0) =>
        /\ out = re_search(patterns[FirstMatching(text)], text, TRUE).group
        /\ out = find_osh_version(lower(text))

\* C2 witness: pattern 2 matches at a start before any start of pattern 1,
\* the two capture different groups, and pattern 1's group was returned.
C2_Witness ==
    /\ fn = "find_osh_version"
    /\ \E i \in 1..Len(text) :
          /\ Accepts(Pattern2, 1, text, i)
          /\ \A j \in 1..i : ~Accepts(Pattern1, 1, text, j)
    /\ Matches(Pattern1, text)
    /\ re_search(Pattern2, text, TRUE).group # re_search(Pattern1, text, TRUE).group
    /\ out = re_search(Pattern1, text, TRUE).group
    /\ text # lower(text)

\* C3: find_osh_version returns a str, and it returns "Not Found" exactly
\* when none of the version patterns matches the text.
C3_NotFoundIffNoMatch ==
    fn = "find_osh_version" =>
        /\ out # None
        /\ out = NotFound <=> FirstMatching(text) = 0

\* C3 witness: a text holding "OSH" and a version number that no pattern
\* matches, for which "Not Found" was returned.
C3_Witness ==
    /\ fn = "find_osh_version"
    /\ out = NotFound
    /\ ContainsNoCase(<<"O","S","H">>, text)
    /\ ContainsNoCase(<<"v","e","r","s","i","o","n",":"," ","1">>, text)

\* C4: classify_risk returns the first tier, in the order HIGH, MEDIUM,
\* LOW, a keyword of which occurs in the text without regard to case, and
\* "Unknown" exactly when no keyword of any tier occurs.
C4_HighestTier ==
    fn = "classify_risk" =>
        /\ out \in {risk_keywords[k].level : k \in 1..3} \cup {Unknown}
        /\ <<risk_keywords[1].level, risk_keywords[2].level, risk_keywords[3].level>>
              = <<<<"H","I","G","H">>, <<"M","E","D","I","U","M">>, <<"L","O","W">>>>
        /\ out = Unknown <=> \A k \in 1..3 : ~TierOccurs(k, text)
        /\ \A k \in 1..3 :
              out = risk_keywords[k].level <=>
                  (TierOccurs(k, text) /\ \A j \in 1..(k - 1) : ~TierOccurs(j, text))

\* C4 witness: a text that begins with a LOW keyword and also holds a HIGH
\* keyword in capitals, classified HIGH.
C4_Witness ==
    /\ fn = "classify_risk"
    /\ out = <<"H","I","G","H">>
    /\ OccursAt(<<"c","l","e","a","n","i","n","g">>, text, 0)
    /\ Contains(<<"W","o","r","k","i","n","g"," ","a","t"," ","H","e","i","g","h","t">>, text)

\* position of a label in key_schedules (0 when it is none of them)
LabelIndex(label) ==
    IF \E k \in 1..Len(key_schedules) : key_schedules[k] = label
    THEN CHOOSE k \in 1..Len(key_schedules) : key_schedules[k] = label
    ELSE 0

\* C5: check_schedules returns exactly the labels of key_schedules that
\* occur in the text without regard to case: none missing, none extra, none
\* repeated, in the order of key_schedules; the empty list when none occurs.
C5_ExactlyTheLabelsPresent ==
    fn = "check_schedules" =>
        /\ \A k \in 1..Len(key_schedules) :
              ContainsNoCase(key_schedules[k], text) <=>
                  \E i \in 1..Len(out) : out[i] = key_schedules[k]
        /\ \A i \in 1..Len(out) : LabelIndex(out[i]) # 0
        /\ \A i, j \in 1..Len(out) :
              i < j => LabelIndex(out[i]) < LabelIndex(out[j])
        /\ (\A k \in 1..Len(key_schedules) : ~ContainsNoCase(key_schedules[k], text))
              => out = <<>>

\* C5 witness: "sla" comes first in the text and "PRICING" after it, twice;
\* the list returned is PRICING, SLA.
C5_Witness ==
    /\ fn = "check_schedules"
    /\ OccursAt(<<"s","l","a">>, text, 0)
    /\ \E a, b \in 1..Len(text) :
          a < b /\ OccursAt(<<"P","R","I","C","I","N","G">>, text, a) /\ OccursAt(<<"P","R","I","C","I","N","G">>, text, b)
    /\ out = <<<<"P","R","I","C","I","N","G">>, <<"S","L","A">>>>

---------------------------------------------------------------------------
(* The claims about a run of the script, checked under Spec.               *)

\* C1: every contract of a run is marked Compliant exactly when its detected
\* version equals the version detected in the reference document and that
\* version is not "Not Found"; with a reference that yields "Not Found" no
\* contract is Compliant.
C1_ComplianceDecision ==
    \A i \in 1..Len(results) :
        /\ current_osh_version = find_osh_version(extract_text(osh_file))
        /\ results[i].version = find_osh_version(extract_text(contract_files[i]))
        /\ results[i].compliance \in {Compliant, NotCompliant}
        /\ results[i].compliance = Compliant <=>
              (results[i].version = current_osh_version
                  /\ current_osh_version # NotFound)
        /\ current_osh_version = NotFound => results[i].compliance = NotCompliant

\* C1 witness: the reference yields "Not Found"; of two contracts analysed
\* one has no version either and one has a version; neither is Compliant.
C1_Witness ==
    /\ current_osh_version = NotFound
    /\ \E i, j \in 1..Len(results) :
          /\ results[i].version = NotFound
          /\ results[j].version # NotFound
          /\ results[i].compliance = NotCompliant
          /\ results[j].compliance = NotCompliant

\* C6 as claimed: the rows read back from the exported CSV equal the rows
\* exported, cell by cell.
C6_RoundTrip ==
    csv # None =>
        /\ read_csv(csv).ok
        /\ Len(read_csv(csv).rows) = Len(results)
        /\ \A r \in 1..Len(results) : \A c \in 1..Len(Columns) :
              py_eq(read_csv(csv).rows[r][Columns[c]],
                    exported(results)[r][Columns[c]])

\* whether every version of the result set is written as a number
AllVersionsNumeric ==
    \A r \in 1..Len(results) :
        IsInteger(results[r].version) \/ IsDecimal(results[r].version)

\* C6 as amended: the rows read back are as many, in the same order; file
\* name, compliance label and risk tier are read back as exported; the
\* schedules are read back as the text of the list, not as the list; the
\* versions are read back as exported when some version of the run is not a
\* number, and as numbers otherwise ("2.10" as 2.1).
C6_RoundTripAsText ==
    csv # None =>
        LET back == read_csv(csv)
            sent == exported(results)
        IN  /\ back.ok
            /\ Len(back.rows) = Len(results)
            /\ \A r \in 1..Len(results) :
                  /\ py_eq(back.rows[r].file, sent[r].file)
                  /\ py_eq(back.rows[r].compliance, sent[r].compliance)
                  /\ py_eq(back.rows[r].risk, sent[r].risk)
                  /\ py_eq(back.rows[r].schedules,
                           PyStr(py_str_list(results[r].schedules)))
                  /\ ~py_eq(back.rows[r].schedules, sent[r].schedules)
                  /\ IF AllVersionsNumeric
                     THEN /\ back.rows[r].version.type \in {"int", "float"}
                          /\ back.rows[r].version.value
                                = to_float(results[r].version).value
                          /\ back.rows[r].version.scale
                                = to_float(results[r].version).scale
                          /\ ~py_eq(back.rows[r].version, sent[r].version)
                     ELSE py_eq(back.rows[r].version, sent[r].version)

\* C6 witness: a CSV was exported in which the version "2.10" of a contract
\* with several schedules is read back as the float 2.1.
C6_Witness ==
    /\ csv # None
    /\ \E r \in 1..Len(results) :
          /\ results[r].version = <<"2",".","1","0">>
          /\ Len(results[r].schedules) >= 2
          /\ py_eq(read_csv(csv).rows[r].version, PyFloat(21, 1))

\* C7: the datastore is append-only: the step that ends a run with both
\* uploads present appends one row per uploaded contract, in upload order;
\* no other step changes the table, and no step changes or removes a row
\* that is in it.
C7_AppendOnlyDatastore ==
    [][/\ Len(db') >= Len(db)
       /\ SubSeq(db', 1, Len(db)) = db
       /\ pc # "report" => db' = db
       /\ pc = "report" =>
             /\ Len(db') = Len(db) + Len(contract_files)
             /\ \A i \in 1..Len(contract_files) :
                   /\ Len(db) + i <= Len(db')
                   /\ db'[Len(db) + i].filename = contract_files[i].name
                   /\ db'[Len(db) + i].version = results[i].version]_vars

\* whether extract_text takes the file for neither a PDF nor a Word file
Unrecognised(file) ==
    /\ ~endswith(file.name, <<".","p","d","f">>)
    /\ ~endswith(file.name, <<".","d","o","c","x">>)

\* C8: a contract whose format extract_text does not recognise yields the
\* empty text, and its result holds the sentinels: "Not Found", Not
\* Compliant, "Unknown" and no schedule.
C8_UnrecognisedFormatDegrades ==
    \A i \in 1..Len(results) :
        Unrecognised(contract_files[i]) =>
            /\ extract_text(contract_files[i]) = <<>>
            /\ results[i].version = NotFound
            /\ results[i].compliance = NotCompliant
            /\ results[i].risk = Unknown
            /\ results[i].schedules = <<>>

\* C8 witness: a contract named *.PDF whose pages hold the very version of
\* the reference, a risk keyword and a schedule label has been analysed.
C8_Witness ==
    \E i \in 1..Len(results) :
        /\ Unrecognised(contract_files[i])
        /\ current_osh_version = <<"2",".","1","0">>
        /\ find_osh_version(join(<<"\n">>, contract_files[i].parts)) = <<"2",".","1","0">>
        /\ classify_risk(join(<<"\n">>, contract_files[i].parts)) # Unknown
        /\ check_schedules(join(<<"\n">>, contract_files[i].parts)) # <<>>

\* C9: within a run the contracts are processed in upload order, one result
\* each: the result list is as long as the number of contracts the loop has
\* taken, its i-th entry is the result of the i-th uploaded contract, and no
\* step of the run changes an entry that is in the list.
C9_OneResultPerContractInOrder ==
    [][runs' = runs =>
          /\ Len(results') = loop_i'
          /\ loop_i' <= Len(contract_files')
          /\ loop_i' \in {loop_i, loop_i + 1}
          /\ \A i \in 1..Len(results') :
                /\ results'[i].file = contract_files'[i].name
                /\ results'[i] = analyze(contract_files'[i], current_osh_version')
          /\ \A i \in 1..Len(results) :
                i <= Len(results') /\ results'[i] = results[i]]_vars

\* C9 witness: a run has gone through the summary, the exports and the
\* database step with the results of two different contracts.
C9_Witness ==
    /\ pc \in {"done", "error"}
    /\ Len(results) >= 2
    /\ results[1] # results[2]
    /\ csv # None

\* the names of the results that carry the label, in order
NamesMarked(label) ==
    LET marked == SelectSeq(results, LAMBDA r : r.compliance = label)
    IN  [k \in 1..Len(marked) |-> marked[k].file]

\* C10: every processed contract is in exactly one of the two lists, the
\* one of its compliance label, so the two counts add up to the number of
\* contracts processed and, in the summary, to the number of uploaded
\* contracts and of result rows.
C10_CountsAddUp ==
    /\ compliant_contracts = NamesMarked(Compliant)
    /\ non_compliant_contracts = NamesMarked(NotCompliant)
    /\ Len(compliant_contracts) + Len(non_compliant_contracts) = loop_i
    /\ shown.displayed =>
          /\ shown.compliant + shown.non_compliant = Len(contract_files)
          /\ shown.compliant + shown.non_compliant = Len(results)
          /\ shown.compliant = Len(NamesMarked(Compliant))

\* C10 witness: the summary of a run with two contracts of the same file
\* name, one Compliant and one not.
C10_Witness ==
    /\ shown.displayed
    /\ Len(results) = 2
    /\ results[1].file = results[2].file
    /\ shown.compliant = 1
    /\ shown.non_compliant = 1

===========================================================================
